---------------------------- MODULE Spec2Model ----------------------------
(***************************************************************************)
(* Model of scripts/verify_agent.py: the run-polling state machine         *)
(* verify_agent (create thread, create message, then per attempt create a  *)
(* run and poll it to a terminal status, a rate-limit retry or a timeout), *)
(* with its helpers _normalize_status, _serialize_error and                *)
(* _is_retryable_rate_limit.                                               *)
(*                                                                         *)
(* Python strings are modelled as sequences of one-character strings, so   *)
(* that splitting, stripping, lowercasing and substring search are         *)
(* computed.  Times are integers counted in ticks of 1/Scale second, so    *)
(* that the factor 1.5 of the backoff is exact.  time.time() is only ever  *)
(* compared with the deadline of the current attempt, so clock counts the  *)
(* time since the current run was created (since the call began, before    *)
(* the first run) and n_polls the runs.get calls that returned the state   *)
(* of the current run.                                                     *)
(***************************************************************************)
EXTENDS Integers, Sequences, FiniteSets, TLC

\* ------------------------------------------------------------------ bounds
\* Largest poll_interval, timeout, initial_backoff/max_backoff (seconds),
\* largest max_attempts, and the longest a runs.get call takes (seconds).
MaxPollInterval == 2
MaxTimeout == 2
MaxBackoff == 3
MaxMaxAttempts == 3
MaxLatency == 1

\* Ticks per second.  current_backoff is multiplied by 1.5 at most
\* max_attempts - 1 times, so a power of two of this size keeps it integral.
Scale == 2 ^ MaxMaxAttempts

\* ------------------------------------------------------------ Python text
None == <<"None">>

UpperChars == <<"A","B","C","D","E","F","G","H","I","J","K","L","M",
                "N","O","P","Q","R","S","T","U","V","W","X","Y","Z">>
LowerChars == <<"a","b","c","d","e","f","g","h","i","j","k","l","m",
                "n","o","p","q","r","s","t","u","v","w","x","y","z">>
Whitespace == {" ", "\t", "\n", "\r"}

\* str.lower() on one character
LowerChar(c) ==
    IF \E i \in 1..26 : UpperChars[i] = c
    THEN LowerChars[CHOOSE i \in 1..26 : UpperChars[i] = c]
    ELSE c

\* str.lower()
Lower(s) == [i \in 1..Len(s) |-> LowerChar(s[i])]

\* str.strip()
Strip(s) ==
    LET keep == {i \in 1..Len(s) : s[i] \notin Whitespace}
    IN  IF keep = {} THEN <<>>
        ELSE SubSeq(s, CHOOSE i \in keep : \A j \in keep : i <= j,
                       CHOOSE i \in keep : \A j \in keep : i >= j)

\* text.split(".")[-1]
LastDotPart(s) ==
    LET dots == {i \in 1..Len(s) : s[i] = "."}
    IN  IF dots = {} THEN s
        ELSE SubSeq(s, (CHOOSE i \in dots : \A j \in dots : i >= j) + 1, Len(s))

\* sub in s
Contains(sub, s) ==
    \E i \in 1..(Len(s) - Len(sub) + 1) : SubSeq(s, i, i + Len(sub) - 1) = sub

\* ---------------------------------------------------------------- statuses
S_succeeded == <<"s","u","c","c","e","e","d","e","d">>
S_completed == <<"c","o","m","p","l","e","t","e","d">>
S_failed == <<"f","a","i","l","e","d">>
S_canceled == <<"c","a","n","c","e","l","e","d">>

SUCCESS_STATUSES == {S_succeeded, S_completed}
TERMINAL_FAILURE_STATUSES == {S_failed, S_canceled}
\* a variant that also counts "expired" as terminal
Mut_TERMINAL_STATUSES_with_expired ==
    SUCCESS_STATUSES \union TERMINAL_FAILURE_STATUSES
        \union {<<"e","x","p","i","r","e","d">>}

TERMINAL_STATUSES == SUCCESS_STATUSES \cup TERMINAL_FAILURE_STATUSES

\* a variant that forgets .lower()
Mut_normalize_status_no_lower(value) ==
    IF value = None THEN None
    ELSE Strip(IF Contains(<<".">>, value) THEN LastDotPart(value) ELSE value)

_normalize_status(value) ==
    IF value = None THEN None
    ELSE LET text == IF Contains(<<".">>, value) THEN LastDotPart(value) ELSE value
         IN  Lower(Strip(text))

\* ------------------------------------------------------------------ errors
M_rate_limit == <<"r","a","t","e","_","l","i","m","i","t">>
M_rate_space_limit == <<"r","a","t","e"," ","l","i","m","i","t">>

T_rate_limit_exceeded ==
    <<"r","a","t","e","_","l","i","m","i","t","_","e","x","c","e","e","d","e","d">>
T_Rate_Limit_Exceeded ==
    <<"R","a","t","e","_","L","i","m","i","t","_","E","x","c","e","e","d","e","d">>
T_Rate_Limit_hit == <<"R","a","t","e"," ","L","i","m","i","t"," ","h","i","t">>
T_invalid_request ==
    <<"i","n","v","a","l","i","d","_","r","e","q","u","e","s","t">>

\* A remote last_error object: kind says which conversion it offers
\* ("none" is Python None; "to_dict", "as_dict" and "attrs" expose code and
\* message; "opaque" has only str()).  A serialized error has kind "none",
\* "dict" (with the set of keys present) or "str" (its text in message).
NoError == [kind |-> "none", keys |-> {}, code |-> <<>>, message |-> <<>>]
DictError(keys, code, message) ==
    [kind |-> "dict", keys |-> keys,
     code |-> IF "code" \in keys THEN code ELSE <<>>,
     message |-> IF "message" \in keys THEN message ELSE <<>>]
StrError(text) == [kind |-> "str", keys |-> {}, code |-> <<>>, message |-> text]

_serialize_error(error) ==
    CASE error.kind = "none" -> NoError
      [] error.kind \in {"to_dict", "as_dict", "attrs"} ->
             DictError(error.keys, error.code, error.message)
      [] OTHER -> StrError(error.message)

\* `not error`: None, the empty dict and the empty string are falsy
Falsy(error) ==
    \/ error.kind = "none"
    \/ error.kind = "dict" /\ error.keys = {}
    \/ error.kind = "str" /\ error.message = <<>>

\* a variant that forgets .lower()
Mut_is_retryable_case_sensitive(error) ==
    IF Falsy(error) THEN FALSE
    ELSE LET code == IF error.kind = "dict" THEN error.code ELSE <<>>
             message == error.message
         IN  Contains(M_rate_limit, code) \/ Contains(M_rate_space_limit, message)

_is_retryable_rate_limit(error) ==
    IF Falsy(error) THEN FALSE
    ELSE LET code == IF error.kind = "dict" THEN Lower(error.code) ELSE <<>>
             message == Lower(error.message)
         IN  Contains(M_rate_limit, code) \/ Contains(M_rate_space_limit, message)

\* what the remote service may report as a run's status (str(status))
R_queued == <<"q","u","e","u","e","d">>
R_IN_PROGRESS ==
    <<"R","u","n","S","t","a","t","u","s",".","I","N","_","P","R","O","G","R","E","S","S">>
R_expired == <<"e","x","p","i","r","e","d">>
R_cancelled == <<"c","a","n","c","e","l","l","e","d">>
R_FAILED == <<"R","u","n","S","t","a","t","u","s",".","F","A","I","L","E","D">>
R_COMPLETED ==
    <<"R","u","n","S","t","a","t","u","s",".","C","O","M","P","L","E","T","E","D">>

RawStatuses ==
    {None, R_queued, R_IN_PROGRESS, R_expired, R_cancelled,
     S_succeeded, R_COMPLETED, S_failed, R_FAILED, S_canceled}

\* _normalize_status of each status the service may report, computed once
normalized == [raw \in RawStatuses |-> _normalize_status(raw)]

\* what the remote service may report as a run's last_error
RemoteErrors ==
    {NoError,
     [kind |-> "to_dict", keys |-> {"code", "message"},
      code |-> T_rate_limit_exceeded, message |-> <<>>],
     [kind |-> "as_dict", keys |-> {"code", "message"},
      code |-> T_invalid_request, message |-> <<>>],
     [kind |-> "opaque", keys |-> {}, code |-> <<>>, message |-> T_Rate_Limit_hit]}

\* _is_retryable_rate_limit of each serialized error the service may report,
\* computed once
retryable ==
    [error \in {_serialize_error(e) : e \in RemoteErrors} |->
        _is_retryable_rate_limit(error)]

\* -------------------------------------------------------------- verify_agent
\* The parameters (times in ticks), the position in the function, its
\* locals, what it returned or raised (sequences, empty until then), the
\* clock, and what the remote service holds: the threads and messages
\* created, the thread of each run created, the polls answered for the
\* current run, the runs.create calls made and the run the last poll asked
\* for.  backoff_history lists the values current_backoff has taken,
\* backoff_sleeps the backoff sleeps slept and rate_limited_seen counts the
\* runs observed in a terminal failure with a rate-limit error; none of
\* the three is read by the function.
VARIABLES
    poll_interval, timeout, max_attempts, initial_backoff, max_backoff,
    pc, thread, run, attempt, current_backoff, deadline,
    last_status, last_error, retry_requested, current_run,
    outcome, raised,
    clock, n_threads, n_messages, run_threads, n_polls,
    backoff_history, rate_limited_seen,
    run_creates, polled_run, backoff_sleeps,
    ns_pc, ns_value, ns_once, ns_twice,
    rl_pc, rl_error, rl_serialized, rl_result,
    main_pc, exit_status, listed_threads,
    h_pc, agent_index, outputs, h_results, h_returned, h_raised,
    ex_pc, ex_transcript, ex_result

\* the helper functions run on their own (see NormalizeSpec, RateLimitSpec)
pure == <<ns_pc, ns_value, ns_once, ns_twice,
          rl_pc, rl_error, rl_serialized, rl_result>>
inputs == <<poll_interval, timeout, max_attempts, initial_backoff, max_backoff>>
locals == <<thread, run, attempt, current_backoff, deadline,
            last_status, last_error, retry_requested, current_run>>
remote == <<n_threads, n_messages, run_threads, n_polls, run_creates,
            polled_run>>

\* the command-line tools and the harness that call verify_agent: the
\* position of verify_agent.main, the exit status of the process (empty
\* until it exits), the threads whose messages were listed, the position
\* of test_agents, the agent its loop is at, its outputs mapping, what
\* the verify_agent calls returned so far said of succeeded, what
\* test_agents returned or raised
callers == <<main_pc, exit_status, listed_threads,
             h_pc, agent_index, outputs, h_results, h_returned, h_raised>>
\* _extract_agent_lines run on its own (see ExtractSpec)
extract == <<ex_pc, ex_transcript, ex_result>>
others == <<callers, extract>>
vars == <<inputs, pc, locals, outcome, raised, clock, remote,
          backoff_history, rate_limited_seen, backoff_sleeps, pure, others>>

Max(a, b) == IF a >= b THEN a ELSE b
Min(a, b) == IF a <= b THEN a ELSE b

Ended == pc \in {"returned", "raised"}

NormalizeIdle ==
    /\ ns_pc = "idle" /\ ns_value = None /\ ns_once = None /\ ns_twice = None

RateLimitIdle ==
    /\ rl_pc = "idle" /\ rl_error = NoError /\ rl_serialized = NoError
    /\ rl_result = FALSE

\* verify_agent.main is not running
MainIdle == main_pc = "idle" /\ exit_status = <<>> /\ listed_threads = <<>>

\* test_agents is not running
HarnessIdle ==
    /\ h_pc = "idle" /\ agent_index = 0 /\ outputs = <<>> /\ h_results = <<>>
    /\ h_returned = <<>> /\ h_raised = <<>>

ExtractIdle == ex_pc = "idle" /\ ex_transcript = <<>> /\ ex_result = <<>>

OthersIdle == MainIdle /\ HarnessIdle /\ ExtractIdle

\* the arguments of a call
Parameters ==
    /\ poll_interval \in {s * Scale : s \in 1..MaxPollInterval}
    /\ timeout \in {s * Scale : s \in 1..MaxTimeout}
    /\ max_attempts \in 0..MaxMaxAttempts
    /\ initial_backoff \in {s * Scale : s \in 1..MaxBackoff}
    /\ max_backoff \in {s * Scale : s \in 1..MaxBackoff}

\* verify_agent is entered: nothing bound, returned or raised yet
Entry ==
    /\ pc = "create_thread"
    /\ thread = 0 /\ run = 0 /\ attempt = 0
    /\ current_backoff = 0 /\ deadline = 0
    /\ last_status = None /\ last_error = NoError
    /\ retry_requested = FALSE
    /\ current_run = [status |-> None, last_error |-> NoError]
    /\ outcome = <<>> /\ raised = <<>>
    /\ clock = 0
    /\ backoff_history = <<>> /\ rate_limited_seen = 0
    /\ backoff_sleeps = <<>>

\* the service has seen no call yet
FreshService ==
    /\ n_threads = 0 /\ n_messages = 0 /\ run_threads = <<>> /\ n_polls = 0
    /\ run_creates = 0 /\ polled_run = 0

Init ==
    /\ NormalizeIdle
    /\ RateLimitIdle
    /\ OthersIdle
    /\ Parameters
    /\ Entry
    /\ FreshService

\* the failures of the four remote calls, as they leave verify_agent
TransportFailures ==
    {"ThreadCreateFailed", "MessageCreateFailed", "RunCreateFailed", "RunGetFailed"}

\* an exception leaves verify_agent
Raise(exc) ==
    /\ raised' = Append(raised, exc)
    /\ pc' = "raised"

\* threads.create() succeeds: the service hands out the next thread id
CreateThread ==
    /\ pc = "create_thread"
    /\ n_threads' = n_threads + 1
    /\ thread' = n_threads + 1
    /\ pc' = "create_message"
    /\ UNCHANGED <<pure, others, inputs, run, attempt, current_backoff,
                   deadline, last_status, last_error, retry_requested,
                   current_run, outcome, raised, clock, n_messages,
                   run_threads, run_creates, n_polls, polled_run,
                   backoff_history, backoff_sleeps, rate_limited_seen>>

\* threads.create() raises: logged and re-raised
CreateThreadFails ==
    /\ pc = "create_thread"
    /\ Raise("ThreadCreateFailed")
    /\ UNCHANGED <<pure, others, inputs, locals, outcome, clock, n_threads,
                   n_messages, run_threads, run_creates, n_polls, polled_run,
                   backoff_history, backoff_sleeps, rate_limited_seen>>

\* a variant without the floor of two poll cycles
Mut_base_backoff_no_floor == initial_backoff

\* base_backoff = max(initial_backoff, poll_interval * 2)
base_backoff == Max(initial_backoff, poll_interval * 2)

\* messages.create() succeeds; attempt and the backoff are initialised
CreateMessage ==
    /\ pc = "create_message"
    /\ n_messages' = n_messages + 1
    /\ attempt' = 1
    /\ current_backoff' = base_backoff
    /\ backoff_history' = <<base_backoff>>
    /\ pc' = "attempt_loop"
    /\ UNCHANGED <<pure, others, inputs, thread, run, deadline, last_status,
                   last_error, retry_requested, current_run, outcome, raised,
                   clock, n_threads, run_threads, run_creates, n_polls,
                   polled_run, rate_limited_seen, backoff_sleeps>>

CreateMessageFails ==
    /\ pc = "create_message"
    /\ Raise("MessageCreateFailed")
    /\ UNCHANGED <<pure, others, inputs, locals, outcome, clock, n_threads,
                   n_messages, run_threads, run_creates, n_polls, polled_run,
                   backoff_history, backoff_sleeps, rate_limited_seen>>

\* while attempt <= max_attempts
AttemptsLeft == attempt <= max_attempts

\* a variant that opens a thread per attempt
Mut_RunThread_fresh == thread + Len(run_threads)

\* the thread a new run is created on
RunThread == thread

\* runs.create() succeeds; the attempt's deadline and locals are set
CreateRun ==
    /\ pc = "attempt_loop"
    /\ AttemptsLeft
    /\ n_polls' = 0
    /\ run_creates' = run_creates + 1
    /\ run_threads' = Append(run_threads, RunThread)
    /\ run' = Len(run_threads) + 1
    /\ clock' = 0
    /\ deadline' = clock' + timeout
    /\ last_status' = None
    /\ last_error' = NoError
    /\ retry_requested' = FALSE
    /\ pc' = "poll_loop"
    /\ UNCHANGED <<pure, others, inputs, thread, attempt, current_backoff,
                   current_run, outcome, raised, n_threads, n_messages,
                   polled_run, backoff_history, backoff_sleeps,
                   rate_limited_seen>>

\* a variant that treats a failed runs.create as one more retryable attempt
Mut_CreateRunFails_retries ==
    /\ pc = "attempt_loop"
    /\ AttemptsLeft
    /\ run_creates' = run_creates + 1
    /\ IF attempt < max_attempts
       THEN /\ attempt' = attempt + 1
            /\ UNCHANGED <<pc, raised>>
       ELSE /\ Raise("RunCreateFailed")
            /\ UNCHANGED attempt
    /\ UNCHANGED <<pure, others, inputs, thread, run, current_backoff,
                   deadline, last_status, last_error, retry_requested,
                   current_run, outcome, clock, n_threads, n_messages,
                   run_threads, n_polls, polled_run, backoff_history,
                   backoff_sleeps, rate_limited_seen>>

\* runs.create() raises: logged and re-raised
CreateRunFails ==
    /\ pc = "attempt_loop"
    /\ AttemptsLeft
    /\ run_creates' = run_creates + 1
    /\ Raise("RunCreateFailed")
    /\ UNCHANGED <<pure, others, inputs, locals, outcome, clock, n_threads,
                   n_messages, run_threads, n_polls, polled_run,
                   backoff_history, backoff_sleeps, rate_limited_seen>>

\* the attempt loop ends: raise RuntimeError("Exceeded retry attempts ...")
RaiseRetriesExhausted ==
    /\ pc = "attempt_loop"
    /\ ~AttemptsLeft
    /\ Raise("RetriesExhausted")
    /\ UNCHANGED <<pure, others, inputs, locals, outcome, clock, remote,
                   backoff_history, backoff_sleeps, rate_limited_seen>>

\* while time.time() < deadline
TimeLeft == clock < deadline

\* how long one runs.get call may take
Latencies == {s * Scale : s \in 0..MaxLatency}

\* a variant that polls the run created before the latest one
Mut_PollTarget_previous == Max(run - 1, 1)

\* runs.get(thread_id=thread.id, run_id=run.id)
PollTarget == run

\* current_run = runs.get(...); last_status = _normalize_status(status)
GetRun(raw, err) ==
    /\ n_polls' = n_polls + 1
    /\ polled_run' = PollTarget
    /\ current_run' = [status |-> raw, last_error |-> err]
    /\ last_status' = normalized[raw]

\* the record verify_agent returns
Result(status, error, succeeded) ==
    [thread_id |-> thread, run_id |-> run, status |-> status,
     last_error |-> error, succeeded |-> succeeded]

\* a variant that builds the result and goes on polling
Mut_Return_no_exit(result) ==
    /\ outcome' = Append(outcome, result)
    /\ pc' = pc

Return(result) ==
    /\ outcome' = Append(outcome, result)
    /\ pc' = "returned"

\* a variant that retries whatever the attempt count
Mut_RetryAllowed_ignores_attempts(error) == retryable[error]

\* a variant that stops retrying one attempt early
Mut_RetryAllowed_off_by_one(error) ==
    retryable[error] /\ attempt + 1 < max_attempts

\* a variant that retries every failure while attempts are left
Mut_RetryAllowed_any_failure(error) == attempt < max_attempts

\* if _is_retryable_rate_limit(last_error) and attempt < max_attempts
RetryAllowed(error) == retryable[error] /\ attempt < max_attempts

\* wait_seconds = min(max_backoff, current_backoff)
wait_seconds == Min(max_backoff, current_backoff)

\* a variant that forgets the cap
Mut_NextBackoff_unbounded == (current_backoff * 3) \div 2

\* current_backoff = min(max_backoff, current_backoff * 1.5)
NextBackoff == Min(max_backoff, (current_backoff * 3) \div 2)

\* a variant that forgets to count the attempt
Mut_NextAttempt_same == attempt

\* attempt += 1
NextAttempt == attempt + 1

Seen(error) ==
    rate_limited_seen + (IF retryable[error] THEN 1 ELSE 0)

\* one poll that observes a success status: return succeeded=True
PollSuccess ==
    /\ pc = "poll_loop"
    /\ TimeLeft
    /\ \E raw \in RawStatuses :
        LET status_value == normalized[raw] IN
        /\ status_value \in TERMINAL_STATUSES
        /\ status_value \in SUCCESS_STATUSES
        /\ \E err \in RemoteErrors, lat \in Latencies :
            /\ GetRun(raw, err)
            /\ last_error' = _serialize_error(err)
            /\ clock' = clock + lat
            /\ Return(Result(status_value, _serialize_error(err), TRUE))
    /\ UNCHANGED <<pure, others, inputs, thread, run, attempt,
                   current_backoff, deadline, retry_requested, raised,
                   n_threads, n_messages, run_threads, run_creates,
                   backoff_history, backoff_sleeps, rate_limited_seen>>

\* one poll that observes a rate-limited failure with attempts left:
\* sleep the backoff, grow it, count the attempt and break
PollRetry ==
    /\ pc = "poll_loop"
    /\ TimeLeft
    /\ \E raw \in RawStatuses :
        LET status_value == normalized[raw] IN
        /\ status_value \in TERMINAL_STATUSES
        /\ status_value \notin SUCCESS_STATUSES
        /\ \E err \in RemoteErrors, lat \in Latencies :
            /\ RetryAllowed(_serialize_error(err))
            /\ GetRun(raw, err)
            /\ last_error' = _serialize_error(err)
            /\ clock' = clock + lat + wait_seconds
            /\ rate_limited_seen' = Seen(_serialize_error(err))
    /\ current_backoff' = NextBackoff
    /\ backoff_history' = Append(backoff_history, NextBackoff)
    /\ backoff_sleeps' = Append(backoff_sleeps, wait_seconds)
    /\ retry_requested' = TRUE
    /\ attempt' = NextAttempt
    /\ pc' = "attempt_loop"
    /\ UNCHANGED <<pure, others, inputs, thread, run, deadline, outcome,
                   raised, n_threads, n_messages, run_threads, run_creates>>

\* one poll that observes any other terminal failure: return succeeded=False
PollFailed ==
    /\ pc = "poll_loop"
    /\ TimeLeft
    /\ \E raw \in RawStatuses :
        LET status_value == normalized[raw] IN
        /\ status_value \in TERMINAL_STATUSES
        /\ status_value \notin SUCCESS_STATUSES
        /\ \E err \in RemoteErrors, lat \in Latencies :
            /\ ~RetryAllowed(_serialize_error(err))
            /\ GetRun(raw, err)
            /\ last_error' = _serialize_error(err)
            /\ clock' = clock + lat
            /\ rate_limited_seen' = Seen(_serialize_error(err))
            /\ Return(Result(status_value, _serialize_error(err), FALSE))
    /\ UNCHANGED <<pure, others, inputs, thread, run, attempt,
                   current_backoff, deadline, retry_requested, raised,
                   n_threads, n_messages, run_threads, run_creates,
                   backoff_history, backoff_sleeps>>

\* one poll that observes no terminal status: time.sleep(poll_interval)
PollPending ==
    /\ pc = "poll_loop"
    /\ TimeLeft
    /\ \E raw \in RawStatuses :
        /\ normalized[raw] \notin TERMINAL_STATUSES
        /\ GetRun(raw, NoError)
        /\ \E lat \in Latencies : clock' = clock + lat + poll_interval
    /\ UNCHANGED <<pure, others, inputs, pc, thread, run, attempt,
                   current_backoff, deadline, last_error, retry_requested,
                   outcome, raised, n_threads, n_messages, run_threads,
                   run_creates, backoff_history, backoff_sleeps,
                   rate_limited_seen>>

\* runs.get raises: nothing catches it
GetRunFails ==
    \E lat \in Latencies :
        /\ pc = "poll_loop"
        /\ TimeLeft
        /\ clock' = clock + lat
        /\ Raise("RunGetFailed")
        /\ UNCHANGED <<pure, others, inputs, locals, outcome, n_threads,
                       n_messages, run_threads, run_creates, n_polls,
                       polled_run, backoff_history, backoff_sleeps,
                       rate_limited_seen>>

\* a variant that treats a timed-out attempt as retryable
Mut_RaiseTimeout_retries ==
    /\ pc = "poll_loop"
    /\ ~TimeLeft
    /\ IF attempt < max_attempts
       THEN /\ attempt' = attempt + 1
            /\ pc' = "attempt_loop"
            /\ UNCHANGED raised
       ELSE /\ Raise("Timeout")
            /\ UNCHANGED attempt
    /\ UNCHANGED <<pure, others, inputs, thread, run, current_backoff,
                   deadline, last_status, last_error, retry_requested,
                   current_run, outcome, clock, remote, backoff_history,
                   backoff_sleeps, rate_limited_seen>>

\* a variant that starts the wait over instead of raising
Mut_RaiseTimeout_extends ==
    /\ pc = "poll_loop"
    /\ ~TimeLeft
    /\ clock' = 0
    /\ n_polls' = 0
    /\ UNCHANGED <<pure, others, inputs, pc, locals, outcome, raised,
                   n_threads, n_messages, run_threads, run_creates,
                   polled_run, backoff_history, backoff_sleeps,
                   rate_limited_seen>>

\* the poll loop ends without break: raise TimeoutError
RaiseTimeout ==
    /\ pc = "poll_loop"
    /\ ~TimeLeft
    /\ Raise("Timeout")
    /\ UNCHANGED <<pure, others, inputs, locals, outcome, clock, remote,
                   backoff_history, backoff_sleeps, rate_limited_seen>>

Next ==
    \/ CreateThread
    \/ CreateThreadFails
    \/ CreateMessage
    \/ CreateMessageFails
    \/ CreateRun
    \/ CreateRunFails
    \/ RaiseRetriesExhausted
    \/ GetRunFails
    \/ RaiseTimeout
    \/ PollPending
    \/ PollSuccess
    \/ PollRetry
    \/ PollFailed

Spec == Init /\ [][Next]_vars

\* verify_agent is one sequential thread of control: as long as a step is
\* possible (a remote call that returns or raises, a sleep that ends) one is
\* taken
FairSpec == Spec /\ WF_vars(Next)

\* ------------------------------------------- _normalize_status on its own
\* verify_agent is not running
VerifyIdle ==
    /\ poll_interval = Scale /\ timeout = Scale /\ max_attempts = 1
    /\ initial_backoff = Scale /\ max_backoff = Scale
    /\ pc = "idle"
    /\ thread = 0 /\ run = 0 /\ attempt = 0
    /\ current_backoff = 0 /\ deadline = 0
    /\ last_status = None /\ last_error = NoError
    /\ retry_requested = FALSE
    /\ current_run = [status |-> None, last_error |-> NoError]
    /\ outcome = <<>> /\ raised = <<>>
    /\ clock = 0
    /\ n_threads = 0 /\ n_messages = 0 /\ run_threads = <<>> /\ n_polls = 0
    /\ backoff_history = <<>> /\ rate_limited_seen = 0
    /\ run_creates = 0 /\ polled_run = 0 /\ backoff_sleeps = <<>>

main == <<inputs, pc, locals, outcome, raised, clock, remote,
          backoff_history, rate_limited_seen, backoff_sleeps>>

\* longest generated status text
MaxStatusLen == 4

StatusChars == {"a", "B", ".", " "}

\* every text over StatusChars up to MaxStatusLen
Texts(n) == UNION {[1..k -> StatusChars] : k \in 0..n}

R_Failed_padded == <<" ","F","a","i","l","e","d"," ">>

StatusValues == Texts(MaxStatusLen) \cup RawStatuses \cup {R_Failed_padded}

NormalizeInit ==
    /\ VerifyIdle
    /\ OthersIdle
    /\ RateLimitIdle
    /\ ns_pc = "input"
    /\ ns_value \in StatusValues
    /\ ns_once = None
    /\ ns_twice = None

\* status_value = _normalize_status(value)
NormalizeOnce ==
    /\ ns_pc = "input"
    /\ ns_once' = _normalize_status(ns_value)
    /\ ns_pc' = "once"
    /\ UNCHANGED <<main, others, ns_value, ns_twice, rl_pc, rl_error,
                   rl_serialized, rl_result>>

\* _normalize_status applied to its own result
NormalizeAgain ==
    /\ ns_pc = "once"
    /\ ns_twice' = _normalize_status(ns_once)
    /\ ns_pc' = "twice"
    /\ UNCHANGED <<main, others, ns_value, ns_once, rl_pc, rl_error,
                   rl_serialized, rl_result>>

NormalizeNext ==
    \/ NormalizeOnce
    \/ NormalizeAgain

NormalizeSpec == NormalizeInit /\ [][NormalizeNext]_vars

\* ------------------------------------ _is_retryable_rate_limit on its own
T_rate_space_limit_code ==
    <<"R","a","t","e"," ","l","i","m","i","t"," ","h","i","t">>
T_rate_limit_message ==
    <<"r","a","t","e","_","l","i","m","i","t"," ","r","e","a","c","h","e","d">>
T_quota == <<"q","u","o","t","a">>

ErrorCodes ==
    {<<>>, T_rate_limit_exceeded, T_Rate_Limit_Exceeded, T_invalid_request,
     T_rate_space_limit_code}
ErrorMessages ==
    {<<>>, T_Rate_Limit_hit, M_rate_space_limit, T_rate_limit_message, T_quota}

\* the error objects a run may carry
ErrorObjects ==
    {NoError}
    \cup {[kind |-> k, keys |-> ks,
           code |-> IF "code" \in ks THEN c ELSE <<>>,
           message |-> IF "message" \in ks THEN m ELSE <<>>] :
            k \in {"to_dict", "as_dict", "attrs"},
            ks \in SUBSET {"code", "message"},
            c \in ErrorCodes, m \in ErrorMessages}
    \cup {[kind |-> "opaque", keys |-> {}, code |-> <<>>, message |-> m] :
            m \in ErrorMessages \cup ErrorCodes}

RateLimitInit ==
    /\ VerifyIdle
    /\ OthersIdle
    /\ NormalizeIdle
    /\ rl_pc = "input"
    /\ rl_error \in ErrorObjects
    /\ rl_serialized = NoError
    /\ rl_result = FALSE

\* last_error = _serialize_error(getattr(current_run, "last_error", None))
Serialize ==
    /\ rl_pc = "input"
    /\ rl_serialized' = _serialize_error(rl_error)
    /\ rl_pc' = "serialized"
    /\ UNCHANGED <<main, others, rl_error, rl_result, ns_pc, ns_value,
                   ns_once, ns_twice>>

\* _is_retryable_rate_limit(last_error)
Classify ==
    /\ rl_pc = "serialized"
    /\ rl_result' = _is_retryable_rate_limit(rl_serialized)
    /\ rl_pc' = "classified"
    /\ UNCHANGED <<main, others, rl_error, rl_serialized, ns_pc, ns_value,
                   ns_once, ns_twice>>

RateLimitNext ==
    \/ Serialize
    \/ Classify

RateLimitSpec == RateLimitInit /\ [][RateLimitNext]_vars

\* ------------------------------------------ _extract_agent_lines on its own
\* most lines of a generated transcript
MaxTranscriptLen == 3

M_MessageRole_AGENT ==
    <<"M","e","s","s","a","g","e","R","o","l","e",".","A","G","E","N","T">>
M_assistant == <<"[","a","s","s","i","s","t","a","n","t","]">>

L_assistant == <<"[","a","s","s","i","s","t","a","n","t","]"," ","o","k">>
L_Assistant == <<"[","A","s","s","i","s","t","a","n","t","]"," ","o","k">>
L_agent ==
    <<"[","M","e","s","s","a","g","e","R","o","l","e",".","A","G","E","N","T","]"," ","o","k">>
L_user == <<"[","u","s","e","r","]"," ","h","i">>
L_user_quoting ==
    <<"[","u","s","e","r","]"," ","M","e","s","s","a","g","e","R","o","l","e",".","A","G","E","N","T">>
L_role_user ==
    <<"[","M","e","s","s","a","g","e","R","o","l","e",".","U","S","E","R","]"," ","h","i">>

TranscriptLines ==
    {L_assistant, L_Assistant, L_agent, L_user, L_user_quoting, L_role_user}

\* str.startswith
StartsWith(s, prefix) ==
    Len(s) >= Len(prefix) /\ SubSeq(s, 1, Len(prefix)) = prefix

\* "MessageRole.AGENT" in line or line.lower().startswith("[assistant]")
IsAgentLine(line) ==
    \/ Contains(M_MessageRole_AGENT, line)
    \/ StartsWith(Lower(line), M_assistant)

\* a variant without the fallback to the whole transcript
Mut_extract_agent_lines_no_fallback(transcript) ==
    SelectSeq(transcript, IsAgentLine)

_extract_agent_lines(transcript) ==
    LET agent_lines == SelectSeq(transcript, IsAgentLine)
    IN  IF agent_lines # <<>> THEN agent_lines ELSE transcript

\* every transcript over lines up to n lines long
Transcripts(n) == UNION {[1..k -> TranscriptLines] : k \in 0..n}

ExtractInit ==
    /\ VerifyIdle
    /\ NormalizeIdle
    /\ RateLimitIdle
    /\ MainIdle
    /\ HarnessIdle
    /\ ex_pc = "input"
    /\ ex_transcript \in Transcripts(MaxTranscriptLen)
    /\ ex_result = <<>>

Extract ==
    /\ ex_pc = "input"
    /\ ex_result' = _extract_agent_lines(ex_transcript)
    /\ ex_pc' = "done"
    /\ UNCHANGED <<main, pure, callers, ex_transcript>>

ExtractNext == Extract

ExtractSpec == ExtractInit /\ [][ExtractNext]_vars

\* ------------------------------------------------------ verify_agent.main
MainInit ==
    /\ NormalizeIdle
    /\ RateLimitIdle
    /\ HarnessIdle
    /\ ExtractIdle
    /\ main_pc = "verify_agent" /\ exit_status = <<>> /\ listed_threads = <<>>
    /\ Parameters
    /\ Entry
    /\ FreshService

\* a variant that reports every returned result as a success
Mut_ReturnCode_always_zero(result) == 0

\* if not result.get("succeeded", False): return 2 ... return 0
ReturnCode(result) == IF ~result.succeeded THEN 2 ELSE 0

\* verify_agent raised: both except clauses print and return 1
MainCatches ==
    /\ main_pc = "verify_agent"
    /\ pc = "raised"
    /\ exit_status' = <<1>>
    /\ main_pc' = "exited"
    /\ UNCHANGED <<main, pure, extract, listed_threads, h_pc, agent_index,
                   outputs, h_results, h_returned, h_raised>>

\* verify_agent returned: with --show-transcript the thread's messages are
\* listed (a failure of that is caught and printed), the result is printed
\* and the return code follows result["succeeded"]
MainReports ==
    /\ main_pc = "verify_agent"
    /\ pc = "returned"
    /\ \E show_transcript \in BOOLEAN :
          listed_threads' = IF show_transcript
                            THEN Append(listed_threads, outcome[1].thread_id)
                            ELSE listed_threads
    /\ exit_status' = <<ReturnCode(outcome[1])>>
    /\ main_pc' = "exited"
    /\ UNCHANGED <<main, pure, extract, h_pc, agent_index, outputs,
                   h_results, h_returned, h_raised>>

MainNext ==
    \/ Next
    \/ MainCatches
    \/ MainReports

MainSpec == MainInit /\ [][MainNext]_vars

\* ------------------------------------------ test_agents, test_all_agents.main
\* the --max-attempts values the harness is run with
HarnessAttemptLimits == {0, 2}

\* a variant that visits the agents in alphabetical order
Mut_agent_env_map_sorted ==
    << <<"effort", "EFFORT_AGENT_ID">>, <<"priority", "PRIORITY_AGENT_ID">>,
       <<"team", "TEAM_AGENT_ID">>, <<"triage", "TRIAGE_AGENT_ID">> >>

\* agent_env_map.items(), in insertion order
agent_env_map ==
    << <<"priority", "PRIORITY_AGENT_ID">>, <<"team", "TEAM_AGENT_ID">>,
       <<"effort", "EFFORT_AGENT_ID">>, <<"triage", "TRIAGE_AGENT_ID">> >>

\* outputs[key] = value on a dict kept in insertion order
DictSet(d, key, value) ==
    IF \E i \in 1..Len(d) : d[i].key = key
    THEN [i \in 1..Len(d) |->
             IF d[i].key = key THEN [key |-> key, value |-> value] ELSE d[i]]
    ELSE Append(d, [key |-> key, value |-> value])

B_ok == <<"o","k">>
B_hi == <<"h","i">>
B_no_text == <<"<","n","o"," ","t","e","x","t"," ","c","o","n","t","e","n","t",">">>
Role_user == <<"u","s","e","r">>
Role_AGENT == M_MessageRole_AGENT

RECURSIVE Join(_)
\* "\n".join(parts)
Join(parts) ==
    IF Len(parts) = 0 THEN <<>>
    ELSE IF Len(parts) = 1 THEN parts[1]
    ELSE parts[1] \o <<"\n">> \o Join(Tail(parts))

\* f"[{role}] {body}" of one message
MessageLine(message) ==
    LET body == IF message.parts # <<>> THEN Join(message.parts)
                ELSE B_no_text
    IN  <<"[">> \o message.role \o <<"]", " ">> \o body

\* the lines _iter_thread_messages yields for the listed messages
_iter_thread_messages(messages) ==
    [i \in 1..Len(messages) |-> MessageLine(messages[i])]

\* what messages.list may hold for a thread: a reply without text under
\* an enum-valued role and the ticket, or the ticket alone
ThreadMessages ==
    {<<[role |-> Role_AGENT, parts |-> <<>>],
       [role |-> Role_user, parts |-> <<B_hi, B_ok>>]>>,
     <<[role |-> Role_user, parts |-> <<B_hi, B_ok>>]>>}

HarnessInit ==
    /\ NormalizeIdle
    /\ RateLimitIdle
    /\ MainIdle
    /\ ExtractIdle
    /\ Parameters
    /\ poll_interval = Scale /\ timeout = Scale
    /\ initial_backoff = Scale /\ max_backoff = Scale
    /\ max_attempts \in HarnessAttemptLimits
    /\ h_pc = "loop" /\ agent_index = 1 /\ outputs = <<>> /\ h_results = <<>>
    /\ h_returned = <<>> /\ h_raised = <<>>
    /\ pc = "idle"
    /\ thread = 0 /\ run = 0 /\ attempt = 0
    /\ current_backoff = 0 /\ deadline = 0
    /\ last_status = None /\ last_error = NoError
    /\ retry_requested = FALSE
    /\ current_run = [status |-> None, last_error |-> NoError]
    /\ outcome = <<>> /\ raised = <<>>
    /\ clock = 0
    /\ backoff_history = <<>> /\ rate_limited_seen = 0
    /\ backoff_sleeps = <<>>
    /\ FreshService

\* the loop takes the next agent and calls run_agent_verification, which
\* starts with nothing bound and no call made on its behalf
StartAgent ==
    /\ h_pc = "loop"
    /\ agent_index <= Len(agent_env_map)
    /\ h_pc' = "execute"
    /\ pc' = "create_thread"
    /\ thread' = 0 /\ run' = 0 /\ attempt' = 0
    /\ current_backoff' = 0 /\ deadline' = 0
    /\ last_status' = None /\ last_error' = NoError
    /\ retry_requested' = FALSE
    /\ current_run' = [status |-> None, last_error |-> NoError]
    /\ outcome' = <<>> /\ raised' = <<>>
    /\ clock' = 0
    /\ backoff_history' = <<>> /\ rate_limited_seen' = 0
    /\ backoff_sleeps' = <<>>
    /\ n_polls' = 0 /\ run_creates' = 0 /\ polled_run' = 0
    /\ UNCHANGED <<pure, extract, inputs, n_threads, n_messages, run_threads,
                   main_pc, exit_status, listed_threads, agent_index, outputs,
                   h_results, h_returned, h_raised>>

\* a variant that gives up on the agent and goes on with the next one
Mut_PropagateFailure_skips_agent ==
    /\ h_pc = "execute"
    /\ pc = "raised"
    /\ agent_index' = agent_index + 1
    /\ h_pc' = "loop"
    /\ UNCHANGED <<main, pure, extract, main_pc, exit_status, listed_threads,
                   outputs, h_results, h_returned, h_raised>>

\* run_agent_verification raised: nothing in test_agents catches it
PropagateFailure ==
    /\ h_pc = "execute"
    /\ pc = "raised"
    /\ h_raised' = raised
    /\ h_pc' = "raised"
    /\ UNCHANGED <<main, pure, extract, main_pc, exit_status, listed_threads,
                   agent_index, outputs, h_results, h_returned>>

\* run_agent_verification returned: the thread's messages are listed and
\* the agent's lines stored under its name
FetchTranscript ==
    /\ h_pc = "execute"
    /\ pc = "returned"
    /\ listed_threads' = Append(listed_threads, outcome[1].thread_id)
    /\ h_results' = Append(h_results, outcome[1].succeeded)
    /\ \E messages \in ThreadMessages :
          LET transcript == _iter_thread_messages(messages)
          IN  outputs' = DictSet(outputs, agent_env_map[agent_index][1],
                                 _extract_agent_lines(transcript))
    /\ agent_index' = agent_index + 1
    /\ h_pc' = "loop"
    /\ UNCHANGED <<main, pure, extract, main_pc, exit_status, h_returned,
                   h_raised>>

\* messages.list raises: nothing in test_agents catches it
FetchTranscriptFails ==
    /\ h_pc = "execute"
    /\ pc = "returned"
    /\ listed_threads' = Append(listed_threads, outcome[1].thread_id)
    /\ h_results' = Append(h_results, outcome[1].succeeded)
    /\ h_raised' = <<"MessagesListFailed">>
    /\ h_pc' = "raised"
    /\ UNCHANGED <<main, pure, extract, main_pc, exit_status, agent_index,
                   outputs, h_returned>>

\* the loop is over: return outputs
ReturnOutputs ==
    /\ h_pc = "loop"
    /\ agent_index > Len(agent_env_map)
    /\ h_returned' = <<outputs>>
    /\ h_pc' = "returned"
    /\ UNCHANGED <<main, pure, extract, main_pc, exit_status, listed_threads,
                   agent_index, outputs, h_results, h_raised>>

\* test_all_agents.main prints the outputs and returns 0
HarnessMainReturns ==
    /\ h_pc = "returned"
    /\ exit_status' = <<0>>
    /\ h_pc' = "exited"
    /\ UNCHANGED <<main, pure, extract, main_pc, listed_threads, agent_index,
                   outputs, h_results, h_returned, h_raised>>

\* the exception leaves test_all_agents.main: the interpreter exits with 1
HarnessMainUncaught ==
    /\ h_pc = "raised"
    /\ exit_status' = <<1>>
    /\ h_pc' = "exited"
    /\ UNCHANGED <<main, pure, extract, main_pc, listed_threads, agent_index,
                   outputs, h_results, h_returned, h_raised>>

HarnessNext ==
    \/ Next
    \/ StartAgent
    \/ PropagateFailure
    \/ FetchTranscript
    \/ FetchTranscriptFails
    \/ ReturnOutputs
    \/ HarnessMainReturns
    \/ HarnessMainUncaught

HarnessSpec == HarnessInit /\ [][HarnessNext]_vars

\* ------------------------------------------------------------------ claims
Failures == TransportFailures \cup {"Timeout", "RetriesExhausted"}

\* C1: one call of verify_agent ends in exactly one of a returned outcome
\* or one raised failure among the transport failures, Timeout and
\* RetriesExhausted, never both, and makes no remote call once it has ended.
C1_ExactlyOneEnding ==
    /\ [](/\ Len(outcome) + Len(raised) <= 1
          /\ (pc = "returned") = (Len(outcome) = 1)
          /\ (pc = "raised") = (Len(raised) = 1)
          /\ \A i \in 1..Len(raised) : raised[i] \in Failures)
    /\ [][Ended => UNCHANGED <<remote, outcome, raised, pc>>]_vars

C1_Witness ==
    /\ pc = "returned" /\ Len(outcome) = 1 /\ raised = <<>>
    /\ Len(run_threads) = 2

C3_AllRateLimitedRaises ==
    (/\ Ended
     /\ max_attempts >= 1
     /\ Len(run_threads) = max_attempts
     /\ rate_limited_seen = max_attempts)
    => (raised = <<"RetriesExhausted">> /\ outcome = <<>>)

\* C4: a poll that observes a terminal-failure status whose error is not
\* rate-limit-classified, or is so on the last attempt, makes the call
\* return an outcome with succeeded = FALSE carrying that status and error;
\* nothing is raised.
C4_RunFailedIsReturned ==
    [][(/\ pc = "poll_loop"
        /\ n_polls' = n_polls + 1
        /\ _normalize_status(current_run'.status) \in TERMINAL_FAILURE_STATUSES
        /\ \/ ~_is_retryable_rate_limit(_serialize_error(current_run'.last_error))
           \/ attempt = max_attempts)
       => (/\ pc' = "returned"
           /\ raised' = <<>>
           /\ outcome' = <<[thread_id |-> thread, run_id |-> run,
                            status |-> _normalize_status(current_run'.status),
                            last_error |-> _serialize_error(current_run'.last_error),
                            succeeded |-> FALSE]>>)]_vars

C4_Witness ==
    /\ pc = "returned"
    /\ attempt = 2 /\ max_attempts = 2
    /\ outcome[1].succeeded = FALSE
    /\ outcome[1].status = S_failed
    /\ _is_retryable_rate_limit(outcome[1].last_error)

\* C5: when an attempt reaches its deadline without a terminal status
\* having been observed, the call raises Timeout: the attempt is not
\* retried, no further run is created and no outcome is returned.
C5_TimeoutAborts ==
    /\ [][(pc = "poll_loop" /\ ~(clock < deadline))
          => (/\ pc' = "raised"
              /\ raised' = <<"Timeout">>
              /\ outcome' = <<>>
              /\ UNCHANGED <<remote, attempt>>)]_vars
    /\ [](raised = <<"Timeout">>
          => (/\ pc = "raised"
              /\ outcome = <<>>
              /\ clock >= deadline
              /\ last_status \notin TERMINAL_STATUSES
              /\ Len(run_threads) = attempt))

C5_Witness ==
    /\ raised = <<"Timeout">>
    /\ attempt = 2 /\ max_attempts = 3
    /\ n_polls >= 2

\* C6: a returned outcome with succeeded = TRUE has a success status; one
\* with succeeded = FALSE has a terminal-failure status and either an error
\* that is not rate-limit-classified or attempt = max_attempts.
C6_OutcomeInvariant ==
    \A i \in 1..Len(outcome) :
        IF outcome[i].succeeded
        THEN outcome[i].status \in SUCCESS_STATUSES
        ELSE /\ outcome[i].status \in TERMINAL_FAILURE_STATUSES
             /\ \/ ~_is_retryable_rate_limit(outcome[i].last_error)
                \/ attempt = max_attempts

C6_Witness ==
    /\ Len(outcome) = 1
    /\ ~outcome[1].succeeded
    /\ _is_retryable_rate_limit(outcome[1].last_error)
    /\ attempt = 3

\* C7: a call with max_attempts >= 1 in which no thread, message or run
\* creation fails creates exactly one thread and one message and at least
\* one run, creates every run on that thread, and deletes nothing.
C7_OneThreadOneMessage ==
    /\ [](/\ n_threads <= 1 /\ n_messages <= 1
          /\ \A i \in 1..Len(run_threads) : run_threads[i] = thread /\ thread = 1
          /\ (/\ Ended
              /\ max_attempts >= 1
              /\ \A i \in 1..Len(raised) :
                    raised[i] \notin {"ThreadCreateFailed", "MessageCreateFailed",
                                      "RunCreateFailed"})
             => (n_threads = 1 /\ n_messages = 1 /\ Len(run_threads) >= 1))
    /\ [][/\ n_threads' >= n_threads
          /\ n_messages' >= n_messages
          /\ Len(run_threads') >= Len(run_threads)
          /\ SubSeq(run_threads', 1, Len(run_threads)) = run_threads]_vars

C7_Witness ==
    /\ pc = "returned"
    /\ Len(run_threads) = 3
    /\ n_threads = 1 /\ n_messages = 1

CodeOf(error) == IF error.kind = "dict" THEN Lower(error.code) ELSE <<>>
MessageOf(error) == Lower(error.message)

C9_Examples ==
    /\ (rl_error.kind # "none" /\ "code" \in rl_error.keys
            /\ rl_error.code = T_Rate_Limit_Exceeded) => rl_result
    /\ (rl_error.message = T_Rate_Limit_hit
            /\ (rl_error.kind = "opaque" \/ "message" \in rl_error.keys))
        => rl_result
    /\ (rl_error.code = T_invalid_request /\ rl_error.message \in {<<>>, T_quota})
        => ~rl_result
    /\ (rl_error.kind = "none" \/ (rl_error.kind # "opaque" /\ rl_error.keys = {})
            \/ (rl_error.kind = "opaque" /\ rl_error.message = <<>>))
        => ~rl_result

\* C9 as stated: an error is retryable exactly when its code or its message
\* contains "rate_limit" or "rate limit" in any letter case, either marker
\* in either field; Rate_Limit_Exceeded and "Rate Limit hit" are retryable,
\* invalid_request and an absent or empty error are not.
C9_EitherMarkerEitherField ==
    rl_pc = "classified" =>
        /\ rl_result =
              \E field \in {CodeOf(rl_serialized), MessageOf(rl_serialized)},
                 marker \in {M_rate_limit, M_rate_space_limit} :
                  Contains(marker, field)
        /\ C9_Examples

\* C9 amended: an error is retryable exactly when its code contains
\* "rate_limit" or its message contains "rate limit", in any letter case
\* (the message of a non-dict error being its text); the examples stand.
C9_MarkerPerField ==
    rl_pc = "classified" =>
        /\ rl_result =
              (\/ Contains(M_rate_limit, CodeOf(rl_serialized))
               \/ Contains(M_rate_space_limit, MessageOf(rl_serialized)))
        /\ C9_Examples

C9_Witness ==
    /\ rl_pc = "classified"
    /\ rl_result
    /\ rl_error.kind = "as_dict"
    /\ rl_error.code = T_Rate_Limit_Exceeded
    /\ rl_error.message = <<>>

\* the part of s after its last "."
TailWithoutDot(s) ==
    LET k == CHOOSE k \in 0..Len(s) :
                 /\ \A i \in (k + 1)..Len(s) : s[i] # "."
                 /\ k = 0 \/ s[k] = "."
    IN  SubSeq(s, k + 1, Len(s))

\* C10: _normalize_status is idempotent; its result is the part after the
\* last ".", trimmed and lowercased; "RunStatus.FAILED" and "failed" both
\* normalize to "failed".
C10_NormalizeIdempotent ==
    /\ ns_pc = "twice" => ns_twice = ns_once
    /\ (ns_pc \in {"once", "twice"} /\ ns_value # None) =>
          /\ ns_once = Lower(Strip(TailWithoutDot(ns_value)))
          /\ \A i \in 1..Len(ns_once) :
                /\ ns_once[i] # "."
                /\ \A j \in 1..26 : ns_once[i] # UpperChars[j]
          /\ ns_once # <<>> =>
                (ns_once[1] \notin Whitespace /\ ns_once[Len(ns_once)] \notin Whitespace)
    /\ (ns_pc \in {"once", "twice"} /\ ns_value \in {R_FAILED, S_failed}) =>
          ns_once = S_failed

C10_Witness ==
    /\ ns_pc = "twice"
    /\ ns_value = R_FAILED
    /\ ns_twice = S_failed

\* C14: a failed threads.create, messages.create or runs.create leaves
\* verify_agent as that failure in the same step: after a failed thread
\* creation there is no message and no runs.create call, after a failed
\* message creation no runs.create call, a failed runs.create on attempt k
\* is the last one even when k < max_attempts; the failing step sleeps
\* nothing, counts no attempt and nothing is returned.
C14_CreationFailureRaisesAtOnce ==
    /\ [](/\ raised = <<"ThreadCreateFailed">> =>
                /\ pc = "raised" /\ outcome = <<>>
                /\ n_threads = 0 /\ n_messages = 0 /\ run_creates = 0
                /\ backoff_sleeps = <<>>
          /\ raised = <<"MessageCreateFailed">> =>
                /\ pc = "raised" /\ outcome = <<>>
                /\ n_threads = 1 /\ n_messages = 0 /\ run_creates = 0
                /\ backoff_sleeps = <<>>
          /\ raised = <<"RunCreateFailed">> =>
                /\ pc = "raised" /\ outcome = <<>>
                /\ attempt <= max_attempts
                /\ run_creates = attempt
                /\ Len(run_threads) = attempt - 1
                /\ Len(backoff_sleeps) = attempt - 1)
    /\ [][/\ (pc = "create_thread" /\ pc' # pc /\ n_threads' = n_threads) =>
                raised' = <<"ThreadCreateFailed">>
          /\ (pc = "create_message" /\ pc' # pc /\ n_messages' = n_messages) =>
                raised' = <<"MessageCreateFailed">>
          /\ (run_creates' # run_creates /\ run_threads' = run_threads) =>
                /\ raised' = <<"RunCreateFailed">>
                /\ UNCHANGED <<attempt, clock, backoff_sleeps, outcome>>
          /\ pc = "raised" => UNCHANGED <<remote, clock, backoff_sleeps, outcome>>
         ]_vars

C14_Witness ==
    /\ raised = <<"RunCreateFailed">>
    /\ attempt = 2
    /\ max_attempts = 3

\* C17: the step in which a poll observes a terminal status on attempt k
\* goes on to another runs.create call exactly when the status is a failure
\* status, its error is classified as a rate limit and k < max_attempts;
\* then it sleeps one backoff and attempt k + 1 <= max_attempts is next.  In
\* every other terminal case the same step returns, with no runs.create
\* call and no backoff sleep.  No later runs.create call has another cause.
C17_RetryIffRateLimitedWithAttemptsLeft ==
    /\ [][(n_polls' = n_polls + 1
             /\ last_status' \in SUCCESS_STATUSES \union TERMINAL_FAILURE_STATUSES)
          => IF /\ last_status' \in TERMINAL_FAILURE_STATUSES
                /\ _is_retryable_rate_limit(
                       _serialize_error(current_run'.last_error))
                /\ attempt < max_attempts
             THEN /\ pc' = "attempt_loop"
                  /\ attempt' = attempt + 1
                  /\ attempt' <= max_attempts
                  /\ Len(backoff_sleeps') = Len(backoff_sleeps) + 1
                  /\ outcome' = <<>> /\ raised' = <<>>
             ELSE /\ pc' = "returned"
                  /\ Len(outcome') = 1
                  /\ UNCHANGED <<run_creates, run_threads, backoff_sleeps,
                                 attempt>>
                  /\ clock' <= clock + MaxLatency * Scale]_vars
    /\ [][(run_creates' = run_creates + 1 /\ run_creates >= 1)
          => /\ retry_requested
             /\ last_status \in TERMINAL_FAILURE_STATUSES
             /\ _is_retryable_rate_limit(last_error)
             /\ attempt - 1 < max_attempts
             /\ run_creates = attempt - 1]_vars
    /\ [](pc = "attempt_loop" /\ attempt >= 2 => AttemptsLeft)

C17_Witness ==
    /\ pc = "returned"
    /\ max_attempts = 2
    /\ run_creates = 2
    /\ Len(backoff_sleeps) = 1
    /\ outcome[1].status = S_failed
    /\ _is_retryable_rate_limit(outcome[1].last_error)

\* C18: the attempts of one call are sequential.  A runs.create call after
\* the first is made only once the latest run was polled in a terminal
\* status; every poll asks for the latest run created; a backoff sleep
\* happens only in the step that observes a terminal status and goes on to
\* the next attempt, one per such step, so when the call has made n >= 1
\* runs.create calls it has slept n - 1 backoffs.
C18_AttemptsSequential ==
    /\ [](/\ attempt >= 1 => Len(backoff_sleeps) = attempt - 1
          /\ pc = "attempt_loop" => run_creates = attempt - 1
          /\ pc = "poll_loop" => run_creates = attempt
          /\ (Ended /\ run_creates >= 1) =>
                Len(backoff_sleeps) = run_creates - 1)
    /\ [][/\ (run_creates' = run_creates + 1 /\ run_creates >= 1) =>
                /\ n_polls >= 1
                /\ polled_run = Len(run_threads)
                /\ last_status \in TERMINAL_STATUSES
                /\ Len(backoff_sleeps) = run_creates
                /\ UNCHANGED backoff_sleeps
          /\ n_polls' = n_polls + 1 =>
                /\ polled_run' = Len(run_threads)
                /\ UNCHANGED <<run_threads, run_creates>>
          /\ backoff_sleeps' # backoff_sleeps =>
                /\ Len(backoff_sleeps') = Len(backoff_sleeps) + 1
                /\ n_polls' = n_polls + 1
                /\ last_status' \in TERMINAL_STATUSES
                /\ pc' = "attempt_loop"]_vars

C18_Witness ==
    /\ pc = "returned"
    /\ run_creates = 3
    /\ Len(run_threads) = 3
    /\ polled_run = 3
    /\ Len(backoff_sleeps) = 2

\* C19 as stated: every backoff sleep lasts min(max_backoff,
\* current_backoff) and is never shorter than 2 * poll_interval.
C19_SleepAtLeastTwoPolls ==
    \A i \in 1..Len(backoff_sleeps) :
        /\ backoff_sleeps[i] = Min(max_backoff, backoff_history[i])
        /\ backoff_sleeps[i] >= 2 * poll_interval

\* C19 amended: every backoff sleep lasts min(max_backoff, current_backoff)
\* and is never shorter than min(max_backoff, 2 * poll_interval); it is at
\* least 2 * poll_interval when max_backoff >= 2 * poll_interval.
C19_SleepAtLeastCappedFloor ==
    \A i \in 1..Len(backoff_sleeps) :
        /\ backoff_sleeps[i] = Min(max_backoff, backoff_history[i])
        /\ backoff_sleeps[i] >= Min(max_backoff, 2 * poll_interval)
        /\ max_backoff >= 2 * poll_interval =>
              backoff_sleeps[i] >= 2 * poll_interval

C19_Witness ==
    /\ Len(backoff_sleeps) = 2
    /\ max_backoff < 2 * poll_interval
    /\ backoff_sleeps[1] = max_backoff
    /\ backoff_sleeps[2] < 2 * poll_interval

\* C20: a poll whose status is absent or normalizes outside {succeeded,
\* completed, failed, canceled} (queued, in_progress, expired and cancelled
\* are such) leaves the attempt running: nothing is returned or raised, no
\* attempt is counted, no backoff is slept, the step sleeps poll_interval
\* and the next poll or the deadline check follows.  While the poll loop
\* runs, every status observed so far was of that kind, and once the
\* deadline has passed the only step left raises TimeoutError.
C20_NonTerminalPollContinues ==
    /\ [](/\ \A raw \in {None, R_queued, R_IN_PROGRESS, R_expired, R_cancelled} :
                _normalize_status(raw)
                    \notin {S_succeeded, S_completed, S_failed, S_canceled}
          /\ (pc = "poll_loop" /\ n_polls >= 1) =>
                last_status \notin {S_succeeded, S_completed, S_failed, S_canceled})
    /\ [][/\ (/\ n_polls' = n_polls + 1
              /\ last_status'
                    \notin {S_succeeded, S_completed, S_failed, S_canceled}) =>
                /\ pc' = "poll_loop"
                /\ UNCHANGED <<outcome, raised, attempt, current_backoff,
                               retry_requested, deadline, run, run_creates,
                               run_threads, backoff_sleeps>>
                /\ clock' >= clock + poll_interval
                /\ clock' <= clock + poll_interval + MaxLatency * Scale
          /\ (pc = "poll_loop" /\ clock >= deadline) =>
                /\ raised' = <<"Timeout">>
                /\ pc' = "raised"
                /\ UNCHANGED <<outcome, attempt, remote, backoff_sleeps>>
         ]_vars

C20_Witness ==
    /\ raised = <<"Timeout">>
    /\ n_polls = 2
    /\ current_run.status = R_expired
    /\ last_status = _normalize_status(R_expired)
    /\ attempt = 1
    /\ max_attempts = 2

\* C15: verify_agent.main exits with 0 exactly when verify_agent returned a
\* result with succeeded true, with 2 when it returned one with succeeded
\* false, and with 1 when it raised TimeoutError, a failure of a remote call
\* or the RuntimeError after the attempt loop; it exits only after the call
\* has ended and, once it has ended, exiting is the only step left.
C15_ExitStatusDistinguishes ==
    /\ [](exit_status # <<>> =>
            /\ Ended
            /\ Len(exit_status) = 1
            /\ exit_status[1] = 0 <=> (outcome # <<>> /\ outcome[1].succeeded)
            /\ exit_status[1] = 2 <=> (outcome # <<>> /\ ~outcome[1].succeeded)
            /\ exit_status[1] = 1 <=>
                  (raised # <<>> /\ raised[1] \in TransportFailures
                                        \cup {"Timeout", "RetriesExhausted"})
            /\ exit_status[1] \in {0, 1, 2})
    /\ [][(Ended /\ exit_status = <<>>) => exit_status' # <<>>]_vars

C15_Witness ==
    /\ exit_status = <<2>>
    /\ outcome # <<>>
    /\ outcome[1].status = S_failed
    /\ ~outcome[1].succeeded

\* C13: when no line of the transcript carries the agent-role marker
\* (the empty transcript included) _extract_agent_lines returns the
\* transcript itself, same lines in the same order; for a transcript that
\* is not empty the result is not empty.
C13_FallbackToTranscript ==
    ex_pc = "done" =>
        /\ (\A i \in 1..Len(ex_transcript) :
                /\ ~Contains(M_MessageRole_AGENT, ex_transcript[i])
                /\ ~StartsWith(Lower(ex_transcript[i]), M_assistant))
              => ex_result = ex_transcript
        /\ ex_transcript # <<>> => ex_result # <<>>
        /\ ex_transcript = <<>> => ex_result = <<>>

C13_Witness ==
    /\ ex_pc = "done"
    /\ ex_transcript = <<L_user, L_role_user>>
    /\ ex_result = <<L_user, L_role_user>>

\* C11: test_agents runs the agents one after another in the order
\* priority, team, effort, triage: verify_agent is entered for the next
\* agent, and its thread created, only after the call for the agent before
\* has returned and that agent's thread messages have been listed; the
\* outputs mapping holds the agents' names in that order and the mapping
\* returned holds all four.
C11_AgentsInOrder ==
    /\ [](/\ Len(outputs) <= 4
          /\ \A i \in 1..Len(outputs) :
                outputs[i].key = <<"priority", "team", "effort", "triage">>[i]
          /\ n_threads <= Len(listed_threads) + 1
          /\ Len(outputs) <= Len(listed_threads)
          /\ h_returned # <<>> =>
                /\ h_returned[1] = outputs
                /\ Len(outputs) = 4
                /\ Len(h_results) = 4)
    /\ [][/\ n_threads' = n_threads + 1 =>
                /\ h_pc = "execute"
                /\ agent_index = n_threads + 1
                /\ Len(listed_threads) = n_threads
                /\ Len(outputs) = n_threads
          /\ (h_pc # "execute" /\ h_pc' = "execute") =>
                /\ pc \in {"idle", "returned"}
                /\ Len(h_results) = agent_index - 1
                /\ Len(listed_threads) = agent_index - 1
                /\ Len(outputs) = agent_index - 1
         ]_vars

C11_Witness ==
    /\ h_returned # <<>>
    /\ h_results = <<TRUE, TRUE, TRUE, TRUE>>
    /\ n_threads = 4
    /\ listed_threads = <<1, 2, 3, 4>>
    /\ h_returned[1][4].key = "triage"

\* C12: when verify_agent raises for an agent, test_agents ends with that
\* same failure in its next step: verify_agent is entered for no later
\* agent, no remote call is made from then on, and no mapping is returned,
\* the outputs of the agents already done included.
C12_FailureAbortsHarness ==
    /\ [](h_raised # <<>> =>
            /\ h_returned = <<>>
            /\ h_pc \in {"raised", "exited"}
            /\ Len(h_raised) = 1
            /\ n_threads <= agent_index
            /\ Len(h_results) <= agent_index)
    /\ [][(h_pc = "execute" /\ pc = "raised") =>
            /\ h_raised' = raised
            /\ raised[1] \in TransportFailures
                                \cup {"Timeout", "RetriesExhausted"}
            /\ h_pc' = "raised"
            /\ UNCHANGED <<n_threads, n_messages, run_threads, run_creates,
                           n_polls, listed_threads, pc, h_returned>>]_vars
    /\ [][h_raised # <<>> =>
            UNCHANGED <<n_threads, n_messages, run_threads, run_creates,
                        n_polls, listed_threads, pc, agent_index, outputs,
                        h_results, h_returned, h_raised>>]_vars

C12_Witness ==
    /\ h_raised = <<"Timeout">>
    /\ h_pc = "exited"
    /\ agent_index = 2
    /\ Len(outputs) = 1
    /\ h_returned = <<>>
    /\ n_threads = 2

\* C16: test_all_agents.main exits with a status other than 0 whenever the
\* run of an agent failed, by an exception or by a result with succeeded
\* false, and with 0 only when all four results have succeeded true.
C16_NonZeroOnAnyFailure ==
    (h_pc = "exited" /\ exit_status # <<>>) =>
        /\ (h_raised # <<>> \/ \E i \in 1..Len(h_results) : ~h_results[i])
              => exit_status[1] # 0
        /\ exit_status[1] = 0 =>
              /\ Len(h_results) = 4
              /\ \A i \in 1..4 : h_results[i]

\* the role a transcript line was written for: the text between the leading
\* "[" and the first "]"
RoleOf(line) ==
    IF line = <<>> \/ line[1] # "[" \/ ~Contains(<<"]">>, line) THEN <<>>
    ELSE LET k == CHOOSE k \in 2..Len(line) :
                      /\ line[k] = "]"
                      /\ \A j \in 2..(k - 1) : line[j] # "]"
         IN  SubSeq(line, 2, k - 1)

\* the role is the agent's: "MessageRole.AGENT", or "assistant" in any case
IsAgentRole(role) ==
    \/ role = M_MessageRole_AGENT
    \/ <<"[">> \o Lower(role) \o <<"]">> = M_assistant

AgentAuthored(line) == IsAgentRole(RoleOf(line))

\* C21: when a line of the transcript is agent-authored, the result of
\* _extract_agent_lines is the transcript's agent-authored lines, in order;
\* a line of another role is not in it, whatever its body says.
C21_OnlyAgentAuthoredLines ==
    (ex_pc = "done" /\ \E i \in 1..Len(ex_transcript) :
                          AgentAuthored(ex_transcript[i])) =>
        /\ ex_result = SelectSeq(ex_transcript, AgentAuthored)
        /\ \A i \in 1..Len(ex_result) : AgentAuthored(ex_result[i])

\* C22: when every remote call returns or raises and every sleep ends, each
\* call of verify_agent ends: it returns a result or raises, whatever the
\* service reports, a run that never becomes terminal and runs that are
\* rate-limited on every attempt included.
C22_EveryCallEnds == <>Ended

C22_Witness ==
    /\ Ended
    /\ max_attempts = 3
    /\ run_creates = 3
    /\ rate_limited_seen = 3
    /\ n_polls = 2
    /\ current_run.status = R_FAILED

\* C23: with max_attempts < 1, once the thread and the message are created
\* the call raises RetriesExhausted without creating a run, polling or
\* sleeping; with max_attempts >= 1 that raise is never reached.
C23_NoAttemptsRaisesAtOnce ==
    /\ (max_attempts < 1) => pc # "poll_loop"
    /\ (/\ Ended
        /\ max_attempts < 1
        /\ raised \notin {<<"ThreadCreateFailed">>, <<"MessageCreateFailed">>})
       => /\ raised = <<"RetriesExhausted">>
          /\ outcome = <<>>
          /\ n_threads = 1
          /\ n_messages = 1
          /\ run_creates = 0
          /\ run_threads = <<>>
          /\ n_polls = 0
          /\ backoff_sleeps = <<>>
          /\ clock = 0
    /\ (raised = <<"RetriesExhausted">>) => max_attempts < 1

C23_Witness ==
    /\ Ended
    /\ max_attempts = 0
    /\ raised = <<"RetriesExhausted">>
    /\ n_threads = 1
    /\ n_messages = 1

=============================================================================
